---- MODULE Spec2Model ----
(***************************************************************************)
(* BeiDou B2a CNAV2 telemetry decoder block                                *)
(* (beidou_b2a_telemetry_decoder_cc): symbol history, preamble correlator, *)
(* frame synchronisation state machine, frame decoder adapter,             *)
(* time-of-week tracker and output annotator.                              *)
(*                                                                         *)
(* One step of the model is one call of general_work.  Amplitudes          *)
(* (Prompt_I) are small integers; only their sign is ever used by the      *)
(* block.  The time of week is kept in milliseconds, the seconds-of-week   *)
(* reported by the navigation message in tenths of a millisecond, so that  *)
(* the floor to millisecond resolution is a real operation.                *)
(***************************************************************************)
EXTENDS Integers, Sequences, FiniteSets, TLC

\* ------------------------------------------------------------------ sizes
\* Symbols in one CNAV2 string (frame), scaled down.
BEIDOU_CNAV2_STRING_SYMBOLS == 3

\* Bits in the preamble, scaled down.
BEIDOU_CNAV2_PREAMBLE_LENGTH_BITS == 2

\* Telemetry symbols per preamble bit.
BEIDOU_CNAV2_TELEMETRY_SYMBOLS_PER_PREAMBLE_BIT == 1

\* Symbols in the preamble.
BEIDOU_CNAV2_PREAMBLE_LENGTH_SYMBOLS ==
    BEIDOU_CNAV2_PREAMBLE_LENGTH_BITS * BEIDOU_CNAV2_TELEMETRY_SYMBOLS_PER_PREAMBLE_BIT

\* Distance between two preambles: one string.
BEIDOU_CNAV2_PREAMBLE_PERIOD_SYMBOLS == BEIDOU_CNAV2_STRING_SYMBOLS

\* #define CRC_ERROR_LIMIT 8
CRC_ERROR_LIMIT == 8

\* One primary-code period, in milliseconds.
BEIDOU_B2a_CODE_PERIOD == 1

\* Duration of the preamble, in tenths of a millisecond.
BEIDOU_CNAV2_PREAMBLE_DURATION_S == 1200

\* Longest symbol stream of the general specification.
MaxSamples == 3 * BEIDOU_CNAV2_STRING_SYMBOLS + 2

\* Longest symbol stream of the navigation-message and end-to-end
\* specifications: three decoded strings.
MaxNavSamples == 5 * BEIDOU_CNAV2_STRING_SYMBOLS + 1

\* Longest symbol stream of the lock-keeping specification: nine failed
\* decodes, a re-acquisition and one more decode.
MaxLockSamples == 14 * BEIDOU_CNAV2_STRING_SYMBOLS

\* Most "new ephemeris" events the navigation message raises in a run.
MaxEphemeris == 2

\* Prompt_I amplitudes of the incoming symbols.
Amplitudes == {-1, 0, 1}

\* Amplitudes of a stream without an exactly-zero prompt.
NonZeroAmplitudes == {-1, 1}

\* Seconds of week the navigation message may report (tenths of a ms).
SOWValues == {30004, 30010}

\* decode_string takes its bits from frame_symbols[24 .. 24 + 288 - 1].
FirstDataSymbol == 24

DataBitCount == 288

\* Longest symbol array handed to decode_string on its own.
MaxFrameLength == 313

\* Calls of the runs that look at the recovery of the frame sync.
MaxReacqSamples == 17 * BEIDOU_CNAV2_STRING_SYMBOLS

\* Calls of a regular run after which the frame sync has to be there.
ReacqWithin == 5 * BEIDOU_CNAV2_STRING_SYMBOLS - 1

NO_LOCK == 0

PRESYNC == 1

LOCKED == 2

VARIABLES
    d_preambles_bits,         \* the preamble, one entry per bit
    d_symbol_history,         \* deque of Prompt_I of the buffered symbols
    d_sample_counter,
    d_stat,
    d_preamble_index,
    d_flag_frame_sync,
    d_flag_preamble,
    d_CRC_error_counter,
    d_TOW_at_current_symbol,  \* milliseconds
    d_dump,
    d_nav,                    \* the navigation-message object
    corr_value,               \* general_work's local, as left by the last call
    out,                      \* the symbol written to out[0] by the last call
    n_consumed,               \* items consumed from the input so far
    n_produced,               \* items returned to the scheduler so far
    telemetry,                \* objects published on the telemetry port by the last call
    dump_warning,             \* the last call logged a dump-file warning
    obs,                      \* observers of the run, read by no operation
    frame_symbols,            \* decode_string's first argument
    frame_length,             \* decode_string's second argument
    data_bits,                \* the string decode_string hands to the string decoder
    watch                     \* observer of the regularity of the run so far

vars == <<d_preambles_bits, d_symbol_history, d_sample_counter, d_stat,
          d_preamble_index, d_flag_frame_sync, d_flag_preamble,
          d_CRC_error_counter, d_TOW_at_current_symbol, d_dump, d_nav,
          corr_value, out, n_consumed, n_produced, telemetry, dump_warning, obs,
          frame_symbols, frame_length, data_bits, watch>>

\* ---------------------------------------------------------------- helpers
Abs(x) == IF x < 0 THEN -x ELSE x

Min(a, b) == IF a < b THEN a ELSE b

RECURSIVE SumTo(_, _)
SumTo(f, n) == IF n = 0 THEN 0 ELSE f[n] + SumTo(f, n - 1)

\* Every amplitude of a sequence negated.
Negated(hist) == [i \in 1..Len(hist) |-> -hist[i]]

\* The constructor's expansion of the preamble bits into +1/-1 symbols.
d_preambles_symbols ==
    [n \in 1..BEIDOU_CNAV2_PREAMBLE_LENGTH_SYMBOLS |->
        IF d_preambles_bits[((n - 1) \div BEIDOU_CNAV2_TELEMETRY_SYMBOLS_PER_PREAMBLE_BIT) + 1] = 1
        THEN 1 ELSE -1]

d_symbols_per_preamble == BEIDOU_CNAV2_PREAMBLE_LENGTH_SYMBOLS

\* ------------------------------------------- navigation message (d_nav)
\* What one call of string_decoder may do to the navigation message: the CRC
\* result and the events it raises.
NavResponses ==
    [crc : BOOLEAN, eph : BOOLEAN, utc : BOOLEAN, alm : BOOLEAN,
     tow_new : BOOLEAN, sow : SOWValues, tow_set : BOOLEAN]

\* The response of a call in which no string is decoded (never read).
NoResponse ==
    [crc |-> FALSE, eph |-> FALSE, utc |-> FALSE, alm |-> FALSE,
     tow_new |-> FALSE, sow |-> 0, tow_set |-> FALSE]

\* The navigation message as constructed.
NavInit ==
    [flag_CRC_test |-> FALSE, flag_TOW_new |-> FALSE, flag_TOW_set |-> FALSE,
     SOW |-> 0, new_ephemeris |-> FALSE, new_utc_model |-> FALSE,
     new_almanac |-> FALSE]

\* d_nav.string_decoder(data_bits): sets the CRC result, raises the "new data"
\* events and the fresh time of week, confirms the navigation time.
string_decoder(nav, r) ==
    [nav EXCEPT !.flag_CRC_test = r.crc,
                !.new_ephemeris = @ \/ r.eph,
                !.new_utc_model = @ \/ r.utc,
                !.new_almanac = @ \/ r.alm,
                !.flag_TOW_new = @ \/ r.tow_new,
                !.SOW = IF r.tow_new THEN r.sow ELSE @,
                !.flag_TOW_set = @ \/ r.tow_set]

\* d_nav.have_new_ephemeris(): reports the event once and clears it.
have_new_ephemeris(nav) ==
    [ready |-> nav.new_ephemeris, nav |-> [nav EXCEPT !.new_ephemeris = FALSE]]

\* d_nav.have_new_utc_model(): reports the event once and clears it.
have_new_utc_model(nav) ==
    [ready |-> nav.new_utc_model, nav |-> [nav EXCEPT !.new_utc_model = FALSE]]

\* d_nav.have_new_almanac(): reports the event once and clears it.
have_new_almanac(nav) ==
    [ready |-> nav.new_almanac, nav |-> [nav EXCEPT !.new_almanac = FALSE]]

\* ------------------------------------------------------------ the block
\* Correlate that starts as soon as the window holds one string.
Correlate_EarlyGate(hist) ==
    IF Len(hist) >= BEIDOU_CNAV2_STRING_SYMBOLS
    THEN SumTo([i \in 1..d_symbols_per_preamble |->
                   IF hist[i] < 0 THEN -d_preambles_symbols[i]
                   ELSE d_preambles_symbols[i]],
               d_symbols_per_preamble)
    ELSE 0

\* Correlate with the subtracting branch lost.
Correlate_NoSubtract(hist) ==
    IF Len(hist) > BEIDOU_CNAV2_STRING_SYMBOLS
    THEN SumTo([i \in 1..d_symbols_per_preamble |->
                   IF hist[i] < 0 THEN 0 ELSE d_preambles_symbols[i]],
               d_symbols_per_preamble)
    ELSE 0

\* Correlate that takes a zero Prompt_I for a negative one.
Correlate_ZeroNegative(hist) ==
    IF Len(hist) > BEIDOU_CNAV2_STRING_SYMBOLS
    THEN SumTo([i \in 1..d_symbols_per_preamble |->
                   IF hist[i] <= 0 THEN -d_preambles_symbols[i]
                   ELSE d_preambles_symbols[i]],
               d_symbols_per_preamble)
    ELSE 0

\* Correlate that runs as soon as the window holds a preamble.
Correlate_AnyWindow(hist) ==
    IF Len(hist) >= d_symbols_per_preamble
    THEN SumTo([i \in 1..d_symbols_per_preamble |->
                   IF hist[i] < 0 THEN -d_preambles_symbols[i]
                   ELSE d_preambles_symbols[i]],
               d_symbols_per_preamble)
    ELSE 0

\* Preamble correlation over the oldest symbols of the window, once the
\* window holds more than one string; 0 before that.
Correlate(hist) ==
    IF Len(hist) > BEIDOU_CNAV2_STRING_SYMBOLS
    THEN SumTo([i \in 1..d_symbols_per_preamble |->
                   IF hist[i] < 0 THEN -d_preambles_symbols[i]
                   ELSE d_preambles_symbols[i]],
               d_symbols_per_preamble)
    ELSE 0

\* abs(corr_value) >= d_symbols_per_preamble
PreambleDetected(corr) == Abs(corr) >= d_symbols_per_preamble

\* The data symbols of the window, polarity resolved by the sign of corr_value.
StringSymbols(hist, corr) ==
    [i \in 1..(BEIDOU_CNAV2_STRING_SYMBOLS - d_symbols_per_preamble) |->
        IF corr > 0 THEN hist[i + d_symbols_per_preamble]
        ELSE -hist[i + d_symbols_per_preamble]]

\* decode_string, step 1: the bits handed to the string decoder, '1' for a
\* positive symbol and '0' otherwise (frame_symbols is indexed from 1 here).
DataBits(symbols) ==
    [ii \in 1..DataBitCount |->
        IF symbols[FirstDataSymbol + ii] > 0 THEN "1" ELSE "0"]

\* decode_string that publishes the ephemeris on every string that passes
\* the CRC.
decode_string_EveryPass(nav, r) ==
    LET n1 == string_decoder(nav, r)
        e == have_new_ephemeris(n1)
        u == have_new_utc_model(e.nav)
        a == have_new_almanac(u.nav)
    IN [nav |-> a.nav,
        published |-> (IF n1.flag_CRC_test THEN {"ephemeris"} ELSE {})
                      \cup (IF u.ready THEN {"utc_model"} ELSE {})
                      \cup (IF a.ready THEN {"almanac"} ELSE {})]

\* decode_string, steps 2 to 4: call the string decoder, then publish what
\* the navigation message reports as new.
decode_string(nav, r) ==
    LET n1 == string_decoder(nav, r)
        e == have_new_ephemeris(n1)
        u == have_new_utc_model(e.nav)
        a == have_new_almanac(u.nav)
    IN [nav |-> a.nav,
        published |-> (IF e.ready THEN {"ephemeris"} ELSE {})
                      \cup (IF u.ready THEN {"utc_model"} ELSE {})
                      \cup (IF a.ready THEN {"almanac"} ELSE {})]

\* The part of the state the frame synchronisation works on.
SyncState ==
    [stat |-> d_stat, index |-> d_preamble_index, crc |-> d_CRC_error_counter,
     frame_sync |-> d_flag_frame_sync, flag_preamble |-> FALSE, nav |-> d_nav,
     published |-> {}, decoded |-> FALSE]

\* NoLockStep that takes the first preamble for a lock.
NoLockStep_Locks(s, corr, counter) ==
    IF PreambleDetected(corr)
    THEN [s EXCEPT !.index = counter, !.stat = LOCKED]
    ELSE s

\* d_stat == 0: no preamble information.
NoLockStep(s, corr, counter) ==
    IF PreambleDetected(corr)
    THEN [s EXCEPT !.index = counter, !.stat = PRESYNC]
    ELSE s

\* PreSyncStep that starts again on any preamble off the period.
PreSyncStep_DemoteEarly(s, corr, counter) ==
    LET preamble_diff == counter - s.index
    IN IF PreambleDetected(corr)
       THEN IF Abs(preamble_diff - BEIDOU_CNAV2_PREAMBLE_PERIOD_SYMBOLS) = 0
            THEN [s EXCEPT !.index = counter, !.stat = LOCKED]
            ELSE [s EXCEPT !.stat = NO_LOCK]
       ELSE s

\* PreSyncStep that accepts a preamble one symbol off the period.
PreSyncStep_Tolerant(s, corr, counter) ==
    LET preamble_diff == counter - s.index
    IN IF PreambleDetected(corr)
       THEN IF Abs(preamble_diff - BEIDOU_CNAV2_PREAMBLE_PERIOD_SYMBOLS) <= 1
            THEN [s EXCEPT !.index = counter, !.stat = LOCKED]
            ELSE IF preamble_diff > BEIDOU_CNAV2_PREAMBLE_PERIOD_SYMBOLS
                 THEN [s EXCEPT !.stat = NO_LOCK]
                 ELSE s
       ELSE s

\* PreSyncStep that gives up once a period has gone by without a preamble.
PreSyncStep_Timeout(s, corr, counter) ==
    LET preamble_diff == counter - s.index
    IN IF PreambleDetected(corr)
       THEN IF Abs(preamble_diff - BEIDOU_CNAV2_PREAMBLE_PERIOD_SYMBOLS) = 0
            THEN [s EXCEPT !.index = counter, !.stat = LOCKED]
            ELSE IF preamble_diff > BEIDOU_CNAV2_PREAMBLE_PERIOD_SYMBOLS
                 THEN [s EXCEPT !.stat = NO_LOCK]
                 ELSE s
       ELSE IF preamble_diff > BEIDOU_CNAV2_PREAMBLE_PERIOD_SYMBOLS
            THEN [s EXCEPT !.stat = NO_LOCK]
            ELSE s

\* PreSyncStep that never starts again.
PreSyncStep_NoDemote(s, corr, counter) ==
    LET preamble_diff == counter - s.index
    IN IF PreambleDetected(corr)
          /\ Abs(preamble_diff - BEIDOU_CNAV2_PREAMBLE_PERIOD_SYMBOLS) = 0
       THEN [s EXCEPT !.index = counter, !.stat = LOCKED]
       ELSE s

\* d_stat == 1: possible preamble lock.
PreSyncStep(s, corr, counter) ==
    LET preamble_diff == counter - s.index
    IN IF PreambleDetected(corr)
       THEN IF Abs(preamble_diff - BEIDOU_CNAV2_PREAMBLE_PERIOD_SYMBOLS) = 0
            THEN [s EXCEPT !.index = counter, !.stat = LOCKED]
            ELSE IF preamble_diff > BEIDOU_CNAV2_PREAMBLE_PERIOD_SYMBOLS
                 THEN [s EXCEPT !.stat = NO_LOCK]
                 ELSE s
       ELSE s

\* What follows the decoder's call when the CRC passed.
CrcPassed(s, counter) ==
    [s EXCEPT !.crc = 0, !.flag_preamble = TRUE, !.index = counter,
              !.frame_sync = TRUE]

\* CrcFailed that drops the frame sync on every failure.
CrcFailed_DropsSync(s, counter) ==
    LET c == s.crc + 1
    IN IF c > CRC_ERROR_LIMIT
       THEN [s EXCEPT !.crc = c, !.index = counter, !.frame_sync = FALSE,
                      !.stat = NO_LOCK]
       ELSE [s EXCEPT !.crc = c, !.index = counter, !.frame_sync = FALSE]

\* CrcFailed that gives up when the limit is reached, not exceeded.
CrcFailed_AtLimit(s, counter) ==
    LET c == s.crc + 1
    IN IF c >= CRC_ERROR_LIMIT
       THEN [s EXCEPT !.crc = c, !.index = counter, !.frame_sync = FALSE,
                      !.stat = NO_LOCK]
       ELSE [s EXCEPT !.crc = c, !.index = counter]

\* CrcFailed that leaves the preamble index where it was.
CrcFailed_KeepIndex(s, counter) ==
    LET c == s.crc + 1
    IN IF c > CRC_ERROR_LIMIT
       THEN [s EXCEPT !.crc = c, !.frame_sync = FALSE, !.stat = NO_LOCK]
       ELSE [s EXCEPT !.crc = c]

\* CrcFailed that falls back to d_stat = 0 with the frame sync still set.
CrcFailed_KeepsSync(s, counter) ==
    LET c == s.crc + 1
    IN IF c > CRC_ERROR_LIMIT
       THEN [s EXCEPT !.crc = c, !.index = counter, !.stat = NO_LOCK]
       ELSE [s EXCEPT !.crc = c, !.index = counter]

\* What follows the decoder's call when the CRC failed.
CrcFailed(s, counter) ==
    LET c == s.crc + 1
    IN IF c > CRC_ERROR_LIMIT
       THEN [s EXCEPT !.crc = c, !.index = counter, !.frame_sync = FALSE,
                      !.stat = NO_LOCK]
       ELSE [s EXCEPT !.crc = c, !.index = counter]

\* d_stat == 2: a string is decoded one string after the preamble index.
LockedStep(s, corr, counter, hist, r) ==
    IF counter = s.index + BEIDOU_CNAV2_STRING_SYMBOLS
    THEN LET d == decode_string(s.nav, r)
             s1 == [s EXCEPT !.nav = d.nav, !.published = d.published,
                             !.decoded = TRUE]
         IN IF d.nav.flag_CRC_test
            THEN CrcPassed(s1, counter)
            ELSE CrcFailed(s1, counter)
    ELSE s

\* The frame sync section of general_work.
FrameSync(s, corr, counter, hist, r) ==
    IF s.stat = NO_LOCK THEN NoLockStep(s, corr, counter)
    ELSE IF s.stat = PRESYNC THEN PreSyncStep(s, corr, counter)
    ELSE IF s.stat = LOCKED THEN LockedStep(s, corr, counter, hist, r)
    ELSE s

\* TOWUpdate that re-anchors on a fresh time of week whether or not the
\* preamble was validated.
TOWUpdate_AnyFresh(tow, flag_preamble, nav) ==
    IF nav.flag_TOW_new
    THEN [tow |-> (nav.SOW - BEIDOU_CNAV2_PREAMBLE_DURATION_S) \div 10,
          nav |-> [nav EXCEPT !.flag_TOW_new = FALSE],
          reanchored |-> TRUE]
    ELSE [tow |-> tow + BEIDOU_B2a_CODE_PERIOD, nav |-> nav, reanchored |-> FALSE]

\* TOWUpdate that re-anchors without clearing flag_TOW_new.
TOWUpdate_KeepsFlag(tow, flag_preamble, nav) ==
    IF flag_preamble /\ nav.flag_TOW_new
    THEN [tow |-> (nav.SOW - BEIDOU_CNAV2_PREAMBLE_DURATION_S) \div 10,
          nav |-> nav,
          reanchored |-> TRUE]
    ELSE [tow |-> tow + BEIDOU_B2a_CODE_PERIOD, nav |-> nav, reanchored |-> FALSE]

\* Time of week of the current symbol: re-anchored on a valid preamble with
\* a fresh time of week, else advanced by one code period.
TOWUpdate(tow, flag_preamble, nav) ==
    IF flag_preamble /\ nav.flag_TOW_new
    THEN [tow |-> (nav.SOW - BEIDOU_CNAV2_PREAMBLE_DURATION_S) \div 10,
          nav |-> [nav EXCEPT !.flag_TOW_new = FALSE],
          reanchored |-> TRUE]
    ELSE [tow |-> tow + BEIDOU_B2a_CODE_PERIOD, nav |-> nav, reanchored |-> FALSE]

\* ValidWord that also asks for the CRC of the last string.
ValidWord_WithCrc(frame_sync, nav) ==
    frame_sync /\ nav.flag_TOW_set /\ nav.flag_CRC_test

\* current_symbol.Flag_valid_word
ValidWord(frame_sync, nav) == frame_sync /\ nav.flag_TOW_set

\* Evict that removes nothing.
Evict_Never(hist) == hist

\* Remove the used symbol from the history.
Evict(hist) ==
    IF Len(hist) > BEIDOU_CNAV2_STRING_SYMBOLS THEN Tail(hist) ELSE hist

\* consume_each(1): the items consumed so far, after one more call.
Consumed(n) == n + 1

\* A call that reports no item produced.
Produced_None(n) == n

\* *out[0] = current_symbol; return 1: the items produced so far, after one
\* more call.
Produced(n) == n + 1

\* Highest history index (counted from 0, as by at()) that a call reads, -1
\* if it reads none: the correlator reads 0 .. d_symbols_per_preamble - 1, a
\* detection in d_stat 0 or 1 and the first frame sync read index 0, the
\* symbol-to-bit loop reads up to BEIDOU_CNAV2_STRING_SYMBOLS - 1.
MaxIndexRead(s0, s1, corr, hist) ==
    IF s1.decoded THEN BEIDOU_CNAV2_STRING_SYMBOLS - 1
    ELSE IF Len(hist) > BEIDOU_CNAV2_STRING_SYMBOLS THEN d_symbols_per_preamble - 1
    ELSE IF s0.stat \in {NO_LOCK, PRESYNC} /\ PreambleDetected(corr) THEN 0
    ELSE -1

\* Of the symbols the correlator reads, how many have (Prompt_I >= 0) in
\* agreement with the sign of the preamble symbol; -1 when it does not run.
Agreements(hist) ==
    IF Len(hist) > BEIDOU_CNAV2_STRING_SYMBOLS
    THEN Cardinality({i \in 1..d_symbols_per_preamble :
                         (hist[i] >= 0) <=> (d_preambles_symbols[i] = 1)})
    ELSE -1

\* A string has passed the CRC since the last fall back to d_stat = 0.
PassSinceDemotion(s0, s1, before) ==
    IF s1.decoded /\ s1.nav.flag_CRC_test THEN TRUE
    ELSE IF s0.stat # NO_LOCK /\ s1.stat = NO_LOCK THEN FALSE
    ELSE before

\* The longest regular end of the run so far. A stretch of calls is regular
\* when none of its decodes fails the CRC and its detections come exactly one
\* frame apart, the first within a frame of its start. w.len is its length
\* (counted up to ReacqWithin), w.last_det the counter of its last detection,
\* 0 if it has none; detected and failed tell of the call just made.
RegularRun(w, counter, detected, failed) ==
    LET F == BEIDOU_CNAV2_STRING_SYMBOLS
        more == Min(w.len + 1, ReacqWithin)
    IN IF ~w.on THEN w
       ELSE IF failed THEN [w EXCEPT !.len = 0, !.last_det = 0]
       ELSE IF detected
            THEN IF w.last_det = 0 \/ counter - w.last_det = F
                 THEN [w EXCEPT !.len = more, !.last_det = counter]
                 ELSE [w EXCEPT !.len = counter - w.last_det, !.last_det = counter]
       ELSE IF w.last_det = 0
            THEN [w EXCEPT !.len = Min(w.len + 1, F - 1)]
       ELSE IF counter - w.last_det < F
            THEN [w EXCEPT !.len = more]
       ELSE [w EXCEPT !.len = F - 1, !.last_det = 0]

\* Consecutive CRC-failed decodes of the current stay in LOCKED.
FailRun(s0, s1, run) ==
    IF s0.stat = PRESYNC /\ s1.stat = LOCKED THEN 0
    ELSE IF s1.decoded THEN (IF s1.nav.flag_CRC_test THEN 0 ELSE run + 1)
    ELSE run

general_work(Prompt_I, r, write_fails) ==
    \E hist \in {Append(d_symbol_history, Prompt_I)}, counter \in {d_sample_counter + 1} :
    \E corr \in {Correlate(hist)} :
    \E s \in {FrameSync(SyncState, corr, counter, hist, r)} :
    \E t \in {TOWUpdate(d_TOW_at_current_symbol, s.flag_preamble, s.nav)} :
       /\ d_symbol_history' = Evict(hist)
       /\ d_sample_counter' = counter
       /\ n_consumed' = Consumed(n_consumed)
       /\ corr_value' = corr
       /\ d_stat' = s.stat
       /\ d_preamble_index' = s.index
       /\ d_CRC_error_counter' = s.crc
       /\ d_flag_frame_sync' = s.frame_sync
       /\ d_flag_preamble' = s.flag_preamble
       /\ telemetry' = s.published
       /\ d_TOW_at_current_symbol' = t.tow
       /\ d_nav' = t.nav
       /\ out' = [Prompt_I |-> Prompt_I,
                  Flag_valid_word |-> ValidWord(s.frame_sync, t.nav),
                  TOW_at_current_symbol_ms |-> t.tow]
       /\ dump_warning' = (d_dump /\ write_fails)
       /\ n_produced' = Produced(n_produced)
       /\ obs' = [seen_zero |-> obs.seen_zero \/ Prompt_I = 0,
                  corr_negated |-> Correlate(Negated(hist)),
                  window_size |-> Len(hist),
                  decoded |-> s.decoded,
                  reanchored |-> t.reanchored,
                  fail_run |-> FailRun(SyncState, s, obs.fail_run),
                  eph_raised |-> obs.eph_raised + (IF s.decoded /\ r.eph THEN 1 ELSE 0),
                  eph_published |-> obs.eph_published
                                    + (IF "ephemeris" \in s.published THEN 1 ELSE 0),
                  prev_frame_sync |-> d_flag_frame_sync,
                  last_decode |-> IF s.decoded THEN counter ELSE obs.last_decode,
                  max_index_read |-> MaxIndexRead(SyncState, s, corr, hist),
                  agreements |-> Agreements(hist),
                  pass_since_demotion |->
                      PassSinceDemotion(SyncState, s, obs.pass_since_demotion)]
       /\ UNCHANGED <<d_preambles_bits, d_dump>>
       \* What the navigation message makes of the bits is drawn as r; the
       \* bits themselves are those of DecodeStringCall below.
       /\ UNCHANGED <<frame_symbols, frame_length, data_bits>>
       /\ watch' = RegularRun(watch, counter, PreambleDetected(corr),
                              s.decoded /\ ~s.nav.flag_CRC_test)

\* decode_string called with the given arguments: the assertion on
\* frame_length, the bits, the string decoder and the publications.
DecodeStringCall(r) ==
    /\ data_bits = <<>>
    /\ frame_length >= FirstDataSymbol + DataBitCount
    /\ \E d \in {decode_string(d_nav, r)} :
          /\ data_bits' = DataBits(frame_symbols)
          /\ d_nav' = d.nav
          /\ telemetry' = d.published
    /\ UNCHANGED <<d_preambles_bits, d_symbol_history, d_sample_counter, d_stat,
                   d_preamble_index, d_flag_frame_sync, d_flag_preamble,
                   d_CRC_error_counter, d_TOW_at_current_symbol, d_dump,
                   corr_value, out, n_consumed, n_produced, dump_warning, obs,
                   frame_symbols, frame_length, watch>>

\* ------------------------------------------------------- specifications
\* A preamble of alternating bits, for the runs in which the pattern is fixed.
AlternatingPreamble == [i \in 1..BEIDOU_CNAV2_PREAMBLE_LENGTH_BITS |-> i % 2]

\* The block as constructed, with the preamble and the dump setting drawn
\* from the given sets.
Constructed(preambles, dumps) ==
    /\ d_preambles_bits \in preambles
    /\ d_symbol_history = <<>>
    /\ d_sample_counter = 0
    /\ d_stat = NO_LOCK
    /\ d_preamble_index = 0
    /\ d_flag_frame_sync = FALSE
    /\ d_flag_preamble = FALSE
    /\ d_CRC_error_counter = 0
    /\ d_TOW_at_current_symbol = 0
    /\ d_dump \in dumps
    /\ d_nav = NavInit
    /\ corr_value = 0
    /\ out = [Prompt_I |-> 0, Flag_valid_word |-> FALSE, TOW_at_current_symbol_ms |-> 0]
    /\ n_consumed = 0
    /\ n_produced = 0
    /\ telemetry = {}
    /\ dump_warning = FALSE
    /\ obs = [seen_zero |-> FALSE, corr_negated |-> 0, window_size |-> 0,
              decoded |-> FALSE, reanchored |-> FALSE, fail_run |-> 0,
              eph_raised |-> 0, eph_published |-> 0,
              prev_frame_sync |-> FALSE, last_decode |-> 0,
              max_index_read |-> -1, agreements |-> -1,
              pass_since_demotion |-> FALSE]

\* decode_string has not been called on its own.
NoDecodeCall == frame_symbols = <<>> /\ frame_length = 0 /\ data_bits = <<>>

\* The regularity of the run is not observed.
NotWatched == watch = [on |-> FALSE, len |-> 0, last_det |-> 0]

\* The next call of general_work decodes a string.
DecodeDue ==
    d_stat = LOCKED /\ d_sample_counter + 1 = d_preamble_index + BEIDOU_CNAV2_STRING_SYMBOLS

\* The responses of the navigation message that report nothing but the CRC.
CrcOnlyResponses ==
    {r \in NavResponses : ~r.eph /\ ~r.utc /\ ~r.alm /\ ~r.tow_new /\ ~r.tow_set
                          /\ r.sow = CHOOSE v \in SOWValues : TRUE}

\* The responses the navigation message may give to the next call.
Responses(all) ==
    IF DecodeDue
    THEN {r \in all : r.eph => obs.eph_raised < MaxEphemeris}
    ELSE {NoResponse}

\* The outcomes of the dump-file write of the next call.
WriteOutcomes == IF d_dump THEN BOOLEAN ELSE {FALSE}

\* Stream and correlator: any preamble, any amplitude, dump on or off.
Init ==
    /\ Constructed([1..BEIDOU_CNAV2_PREAMBLE_LENGTH_BITS -> {0, 1}], BOOLEAN)
    /\ NoDecodeCall /\ NotWatched

Next ==
    /\ d_sample_counter < MaxSamples
    /\ \E a \in Amplitudes, r \in Responses(CrcOnlyResponses), w \in WriteOutcomes :
          general_work(a, r, w)

Spec == Init /\ [][Next]_vars

\* Frame synchronisation over long streams: nonzero amplitudes, the
\* navigation message reporting the CRC only.
InitSync ==
    Constructed({AlternatingPreamble}, {FALSE}) /\ NoDecodeCall /\ NotWatched

NextSync ==
    /\ d_sample_counter < MaxLockSamples
    /\ \E a \in NonZeroAmplitudes, r \in Responses(CrcOnlyResponses), w \in WriteOutcomes :
          general_work(a, r, w)

SpecSync == InitSync /\ [][NextSync]_vars

\* Navigation message: nonzero amplitudes, every response of the message.
NextNav ==
    /\ d_sample_counter < MaxNavSamples
    /\ \E a \in NonZeroAmplitudes, r \in Responses(NavResponses), w \in WriteOutcomes :
          general_work(a, r, w)

SpecNav == InitSync /\ [][NextNav]_vars

\* The window (after the push of call number counter) agrees, up to one
\* polarity per occurrence, with a stream that carries the preamble at
\* stream positions 0 and frame length.
CarriesPreamble(hist, counter) ==
    /\ counter <= d_symbols_per_preamble =>
          \E pol \in {-1, 1} : \A i \in 1..counter :
              hist[i] = pol * d_preambles_symbols[i]
    /\ (/\ counter > BEIDOU_CNAV2_STRING_SYMBOLS
        /\ counter <= BEIDOU_CNAV2_STRING_SYMBOLS + d_symbols_per_preamble) =>
          \E pol \in {-1, 1} : \A j \in 1..(counter - BEIDOU_CNAV2_STRING_SYMBOLS) :
              hist[2 * BEIDOU_CNAV2_STRING_SYMBOLS + j - counter + 1]
                  = pol * d_preambles_symbols[j]

\* The responses of a navigation message whose strings all pass the CRC and
\* that confirms the navigation time; ephemeris and fresh time of week as
\* they come.
GoodResponses == {r \in NavResponses : r.crc /\ r.tow_set /\ ~r.utc /\ ~r.alm}

\* End to end: the preamble at stream positions 0 and frame length, any
\* data, strings that pass the CRC.
InitE2E ==
    /\ Constructed([1..BEIDOU_CNAV2_PREAMBLE_LENGTH_BITS -> {0, 1}], {FALSE})
    /\ NoDecodeCall /\ NotWatched

NextE2E ==
    /\ d_sample_counter < MaxNavSamples
    /\ \E a \in Amplitudes, r \in Responses(GoodResponses), w \in WriteOutcomes :
          /\ CarriesPreamble(Append(d_symbol_history, a), d_sample_counter + 1)
          /\ general_work(a, r, w)

SpecE2E == InitE2E /\ [][NextE2E]_vars

\* The deep runs with the navigation time confirmed by any decode, so that
\* valid words are emitted before and after a loss of lock.
CrcAndTimeResponses ==
    {r \in NavResponses : ~r.eph /\ ~r.utc /\ ~r.alm /\ ~r.tow_new
                          /\ r.sow = CHOOSE v \in SOWValues : TRUE}

NextValid ==
    /\ d_sample_counter < MaxLockSamples
    /\ \E a \in NonZeroAmplitudes, r \in Responses(CrcAndTimeResponses) :
          general_work(a, r, FALSE)

SpecValid == InitSync /\ [][NextValid]_vars

\* decode_string on its own: a symbol array long enough for its assertion,
\* one value everywhere but at one position, and any response of the
\* navigation message.
FrameLengths == (FirstDataSymbol + DataBitCount)..MaxFrameLength

InitDecode ==
    /\ Constructed({AlternatingPreamble}, {FALSE})
    /\ frame_length \in FrameLengths
    /\ \E k \in 1..frame_length, v \in Amplitudes, b \in Amplitudes :
          frame_symbols = [i \in 1..frame_length |-> IF i = k THEN v ELSE b]
    /\ data_bits = <<>>
    /\ NotWatched

NextDecode == \E r \in CrcOnlyResponses : DecodeStringCall(r)

SpecDecode == InitDecode /\ [][NextDecode]_vars

\* The deep runs again, any stream and any CRC results, with the regularity
\* of the run observed. The scheduler calls general_work as long as there is
\* input.
InitReacq ==
    /\ Constructed({AlternatingPreamble}, {FALSE})
    /\ NoDecodeCall
    /\ watch = [on |-> TRUE, len |-> 0, last_det |-> 0]

NextReacq ==
    /\ d_sample_counter < MaxReacqSamples
    /\ \E a \in NonZeroAmplitudes, r \in Responses(CrcOnlyResponses) :
          general_work(a, r, FALSE)

SpecReacq == InitReacq /\ [][NextReacq]_vars /\ WF_vars(NextReacq)

\* ------------------------------------------------------------- claims
\* C1: every call of general_work consumes exactly one input symbol and
\* produces exactly one output symbol; after n calls the sample counter is n
\* and n symbols have been consumed and n produced.
C1_OneInOneOut ==
    /\ n_consumed = d_sample_counter
    /\ n_produced = d_sample_counter
    /\ (d_sample_counter > 0 => out.Prompt_I = d_symbol_history[Len(d_symbol_history)])

\* A call that decoded a string, with a failed CRC and a failed dump write,
\* and still produced its symbol.
C1_Witness ==
    /\ obs.decoded /\ ~d_nav.flag_CRC_test /\ dump_warning
    /\ n_produced = 3 * BEIDOU_CNAV2_STRING_SYMBOLS + 1

\* C2: after n calls the history holds min(n, frame length) symbols; inside
\* a call it holds at most one more than the frame length.
C2_HistoryBound ==
    /\ Len(d_symbol_history) = Min(d_sample_counter, BEIDOU_CNAV2_STRING_SYMBOLS)
    /\ obs.window_size = Min(d_sample_counter, BEIDOU_CNAV2_STRING_SYMBOLS + 1)

\* A call in which the window exceeded the frame length and the oldest
\* symbol was evicted.
C2_Witness ==
    /\ obs.window_size = BEIDOU_CNAV2_STRING_SYMBOLS + 1
    /\ Len(d_symbol_history) = BEIDOU_CNAV2_STRING_SYMBOLS
    /\ d_sample_counter > BEIDOU_CNAV2_STRING_SYMBOLS + 1

\* C3 as stated: on any stream, zero amplitudes included, the stream and its
\* negation give the same |score| at every call.
C3_AnyStream == Abs(corr_value) = Abs(obs.corr_negated)

\* C3, amended: on a stream without an exactly-zero amplitude the stream and
\* its negation give the same |score| at every call, and so a preamble is
\* detected on one exactly when it is detected on the other.
C3_NonZeroStream ==
    ~obs.seen_zero =>
        /\ Abs(corr_value) = Abs(obs.corr_negated)
        /\ corr_value = -obs.corr_negated
        /\ PreambleDetected(corr_value) <=> PreambleDetected(obs.corr_negated)

\* A preamble detected on a stream without zeros, and on its negation with
\* the opposite score.
C3_Witness ==
    /\ ~obs.seen_zero
    /\ PreambleDetected(corr_value)
    /\ obs.corr_negated = -corr_value
    /\ d_sample_counter > BEIDOU_CNAV2_STRING_SYMBOLS + 1

\* C4: from NO_LOCK a detection at counter k gives PRESYNC with index k; in
\* PRESYNC no call before k + frame length changes the state or the index,
\* whatever is detected; a detection at k + frame length gives LOCKED with
\* index k + frame length.
C4_Acquisition ==
    [][/\ (d_stat = NO_LOCK /\ PreambleDetected(corr_value')) =>
             (d_stat' = PRESYNC /\ d_preamble_index' = d_sample_counter')
       /\ (/\ d_stat = PRESYNC
           /\ d_sample_counter' < d_preamble_index + BEIDOU_CNAV2_STRING_SYMBOLS) =>
             (d_stat' = PRESYNC /\ d_preamble_index' = d_preamble_index)
       /\ (/\ d_stat = PRESYNC
           /\ PreambleDetected(corr_value')
           /\ d_sample_counter' = d_preamble_index + BEIDOU_CNAV2_STRING_SYMBOLS) =>
             (d_stat' = LOCKED /\ d_preamble_index' = d_sample_counter')]_vars

\* LOCKED just entered from PRESYNC, on the detection one frame after a
\* preamble that was not the first one the stream could show.
C4_Witness ==
    /\ d_stat = LOCKED
    /\ ~obs.decoded
    /\ PreambleDetected(corr_value)
    /\ d_preamble_index = d_sample_counter
    /\ d_sample_counter > 2 * BEIDOU_CNAV2_STRING_SYMBOLS + 1

\* C5: in PRESYNC with index k a detection at a counter beyond k + frame
\* length gives NO_LOCK and leaves the index alone; LOCKED is entered from
\* PRESYNC only on a detection at exactly k + frame length.
C5_DriftRejected ==
    [][/\ (/\ d_stat = PRESYNC
           /\ PreambleDetected(corr_value')
           /\ d_sample_counter' > d_preamble_index + BEIDOU_CNAV2_STRING_SYMBOLS) =>
             (d_stat' = NO_LOCK /\ d_preamble_index' = d_preamble_index)
       /\ (d_stat = PRESYNC /\ d_stat' = LOCKED) =>
             (/\ PreambleDetected(corr_value')
              /\ d_sample_counter' = d_preamble_index + BEIDOU_CNAV2_STRING_SYMBOLS)]_vars

\* NO_LOCK reached from PRESYNC by a detection one symbol late.
C5_Witness ==
    /\ d_stat = NO_LOCK
    /\ PreambleDetected(corr_value)
    /\ d_CRC_error_counter = 0
    /\ d_sample_counter = d_preamble_index + BEIDOU_CNAV2_STRING_SYMBOLS + 1

\* C6: LOCKED is left for NO_LOCK, and frame sync de-asserted, exactly on the
\* ninth consecutive CRC-failed decode of the stay in LOCKED, in every stay.
C6_NinthFailure ==
    [][(d_stat = LOCKED /\ d_stat' = NO_LOCK) <=>
       (/\ d_stat = LOCKED
        /\ obs.decoded'
        /\ ~d_nav.flag_CRC_test'
        /\ obs.fail_run' = CRC_ERROR_LIMIT + 1
        /\ ~d_flag_frame_sync')]_vars

\* C7 as stated: on a stream with the preamble at positions 0 and frame
\* length, every output from symbol 2 x frame length on is a valid word.
C7_ValidFromSecondFrame ==
    d_sample_counter >= 2 * BEIDOU_CNAV2_STRING_SYMBOLS => out.Flag_valid_word

\* C7, amended: on such a stream every output from symbol
\* 3 x frame length + 1 on is a valid word.
C7_ValidFromFirstDecode ==
    d_sample_counter >= 3 * BEIDOU_CNAV2_STRING_SYMBOLS + 1 => out.Flag_valid_word

\* A valid word two strings after the first decode of the end-to-end stream.
C7_Witness ==
    /\ out.Flag_valid_word
    /\ d_stat = LOCKED
    /\ d_sample_counter = 5 * BEIDOU_CNAV2_STRING_SYMBOLS + 1

\* C8: a call that consumes no fresh time of week advances the tag by one
\* code period; a call made in NO_LOCK or PRESYNC, a call that changes the
\* sync state and a call whose decode fails the CRC all do so.
C8_TagAdvances ==
    [][/\ ~obs.reanchored' =>
             d_TOW_at_current_symbol' = d_TOW_at_current_symbol + BEIDOU_B2a_CODE_PERIOD
       /\ (\/ d_stat \in {NO_LOCK, PRESYNC}
           \/ d_stat' # d_stat
           \/ (obs.decoded' /\ ~d_nav.flag_CRC_test')) =>
             /\ ~obs.reanchored'
             /\ d_TOW_at_current_symbol' = d_TOW_at_current_symbol + BEIDOU_B2a_CODE_PERIOD
       /\ out.TOW_at_current_symbol_ms' = d_TOW_at_current_symbol']_vars

\* A decode that failed the CRC with a fresh time of week pending, the tag
\* still one period per call since construction.
C8_Witness ==
    /\ obs.decoded
    /\ ~d_nav.flag_CRC_test
    /\ d_nav.flag_TOW_new
    /\ d_TOW_at_current_symbol = d_sample_counter * BEIDOU_B2a_CODE_PERIOD

\* C9: the ephemeris is never published more often than the navigation
\* message raised "new ephemeris", and only by a call that decodes a string.
C9_PublishedOncePerRaise ==
    /\ obs.eph_published <= obs.eph_raised
    /\ "ephemeris" \in telemetry => obs.decoded

\* A decode that published no ephemeris, after one raise that was published.
C9_Witness ==
    /\ obs.eph_raised = 1
    /\ obs.eph_published = 1
    /\ obs.decoded
    /\ d_nav.flag_CRC_test
    /\ "ephemeris" \notin telemetry

\* C10: the emitted Flag_valid_word is (frame sync asserted and navigation
\* time confirmed), both as they stand after the call.
C10_ValidWord ==
    out.Flag_valid_word = (d_flag_frame_sync /\ d_nav.flag_TOW_set)

\* A valid word emitted by a call whose decode failed the CRC.
C10_Witness ==
    /\ out.Flag_valid_word
    /\ obs.decoded
    /\ ~d_nav.flag_CRC_test

\* C11 (as the specification states it): the string handed to the string
\* decoder has one bit per symbol of the array, frame_length of them, bit i
\* being '1' exactly when symbol i is positive, in order.
C11_OneBitPerSymbol ==
    data_bits # <<>> =>
        /\ Len(data_bits) = frame_length
        /\ \A i \in 1..frame_length : (data_bits[i] = "1") <=> (frame_symbols[i] > 0)

\* What decode_string does instead: DataBitCount bits, bit i taken from the
\* symbol FirstDataSymbol places further on.
C11_SkipsSymbols ==
    data_bits # <<>> =>
        /\ Len(data_bits) = DataBitCount
        /\ \A i \in 1..DataBitCount :
              (data_bits[i] = "1") <=> (frame_symbols[FirstDataSymbol + i] > 0)

\* C12: d_flag_frame_sync goes from false to true only in a call that decoded
\* a string in LOCKED with the CRC passed, from true to false only in a call
\* whose failed decode took d_CRC_error_counter over the limit and the block
\* back to NO_LOCK; no call entered in NO_LOCK or PRESYNC changes it.
C12_FrameSyncChanges ==
    [][/\ (~d_flag_frame_sync /\ d_flag_frame_sync') =>
            (d_stat = LOCKED /\ obs'.decoded /\ d_nav'.flag_CRC_test)
       /\ (d_flag_frame_sync /\ ~d_flag_frame_sync') =>
            /\ d_stat = LOCKED /\ d_stat' = NO_LOCK
            /\ obs'.decoded /\ ~d_nav'.flag_CRC_test
            /\ d_CRC_error_counter' > CRC_ERROR_LIMIT
       /\ (d_stat \in {NO_LOCK, PRESYNC}) =>
            d_flag_frame_sync' = d_flag_frame_sync]_vars

\* The frame sync has just been taken back by the failure limit.
C12_Witness ==
    /\ obs.prev_frame_sync /\ ~d_flag_frame_sync
    /\ d_stat = NO_LOCK /\ obs.decoded

\* C13: with the frame sync set (by a CRC pass), up to CRC_ERROR_LIMIT failed
\* decodes in a row leave it set and the block LOCKED, and the next one takes
\* both away; every failed decode adds one to d_CRC_error_counter and moves
\* d_preamble_index to d_sample_counter; a CRC pass puts the counter at 0.
C13_FailureLimit ==
    /\ [](d_flag_frame_sync =>
            /\ d_stat = LOCKED
            /\ d_CRC_error_counter = obs.fail_run
            /\ d_CRC_error_counter <= CRC_ERROR_LIMIT)
    /\ [][/\ (d_stat = LOCKED /\ obs'.decoded /\ ~d_nav'.flag_CRC_test) =>
                /\ d_CRC_error_counter' = d_CRC_error_counter + 1
                /\ d_preamble_index' = d_sample_counter'
                /\ (d_flag_frame_sync =>
                      (/\ obs'.fail_run = obs.fail_run + 1
                       /\ d_flag_frame_sync' <=> (obs'.fail_run <= CRC_ERROR_LIMIT)
                       /\ (d_stat' = LOCKED) <=> (obs'.fail_run <= CRC_ERROR_LIMIT)
                       /\ (d_stat' = NO_LOCK) <=> (obs'.fail_run = CRC_ERROR_LIMIT + 1)))
          /\ (obs'.decoded /\ d_nav'.flag_CRC_test) =>
                (d_CRC_error_counter' = 0 /\ d_flag_frame_sync')]_vars

\* Frame sync still set after CRC_ERROR_LIMIT failures in a row.
C13_Witness ==
    /\ d_flag_frame_sync /\ d_stat = LOCKED /\ obs.decoded
    /\ obs.fail_run = CRC_ERROR_LIMIT /\ d_CRC_error_counter = CRC_ERROR_LIMIT

\* C14: in LOCKED a string is decoded exactly in the call that brings
\* d_sample_counter to d_preamble_index + frame length; the index is the
\* counter on entering LOCKED and after every decode, so the first decode
\* comes a frame after the entry and each later one a frame after the one
\* before; in LOCKED 0 <= d_sample_counter - d_preamble_index < frame length;
\* and two decodes of a run are never less than a frame apart.
C14_DecodeCadence ==
    /\ [](d_stat = LOCKED =>
            /\ 0 <= d_sample_counter - d_preamble_index
            /\ d_sample_counter - d_preamble_index < BEIDOU_CNAV2_STRING_SYMBOLS)
    /\ [][/\ obs'.decoded <=>
                /\ d_stat = LOCKED
                /\ d_sample_counter' = d_preamble_index + BEIDOU_CNAV2_STRING_SYMBOLS
          /\ (d_stat = PRESYNC /\ d_stat' = LOCKED) =>
                d_preamble_index' = d_sample_counter'
          /\ obs'.decoded => d_preamble_index' = d_sample_counter'
          /\ (obs'.decoded /\ obs.last_decode > 0) =>
                d_sample_counter' - obs.last_decode >= BEIDOU_CNAV2_STRING_SYMBOLS
          /\ (obs'.decoded /\ d_stat' = LOCKED) =>
                obs'.last_decode = d_preamble_index']_vars

\* The third decode of one stay in LOCKED, each a frame after the one before.
C14_Witness ==
    /\ d_stat = LOCKED /\ obs.decoded /\ obs.fail_run = 3
    /\ obs.last_decode = d_sample_counter /\ d_preamble_index = d_sample_counter

\* C15: a call entered in PRESYNC without a detection, or with one before
\* d_preamble_index + frame length, leaves d_stat, d_preamble_index,
\* d_CRC_error_counter and d_flag_frame_sync as they were; nothing but a
\* detection ends PRESYNC, however long it lasts.
C15_PresyncHolds ==
    [][(/\ d_stat = PRESYNC
        /\ \/ ~PreambleDetected(corr_value')
           \/ d_sample_counter' < d_preamble_index + BEIDOU_CNAV2_STRING_SYMBOLS)
       => /\ d_stat' = PRESYNC
          /\ d_preamble_index' = d_preamble_index
          /\ d_CRC_error_counter' = d_CRC_error_counter
          /\ d_flag_frame_sync' = d_flag_frame_sync]_vars

\* Still PRESYNC three frames after the preamble that started it.
C15_Witness ==
    /\ d_stat = PRESYNC /\ ~PreambleDetected(corr_value)
    /\ d_sample_counter >= d_preamble_index + 3 * BEIDOU_CNAV2_STRING_SYMBOLS

\* C16: when the correlator runs, corr_value is the sum over the
\* d_symbols_per_preamble oldest symbols of the window of the preamble symbol
\* taken as it is for Prompt_I >= 0 and negated for Prompt_I < 0, that is the
\* agreements of (Prompt_I >= 0) with the preamble's sign less the
\* disagreements; abs(corr_value) never exceeds d_symbols_per_preamble; and a
\* preamble is detected exactly when all positions agree or all disagree.
C16_CorrelatorScore ==
    /\ Abs(corr_value) <= d_symbols_per_preamble
    /\ obs.agreements >= 0 =>
          /\ corr_value = obs.agreements - (d_symbols_per_preamble - obs.agreements)
          /\ PreambleDetected(corr_value) <=>
                obs.agreements \in {0, d_symbols_per_preamble}

\* A preamble detected with every position in disagreement, a zero Prompt_I
\* among the correlated symbols.
C16_Witness ==
    /\ obs.agreements = 0 /\ corr_value = -d_symbols_per_preamble
    /\ PreambleDetected(corr_value)
    /\ d_preambles_bits = [i \in 1..BEIDOU_CNAV2_PREAMBLE_LENGTH_BITS |-> 0]
    /\ d_symbol_history[1] = 0

\* C17: d_TOW_at_current_symbol is re-anchored only by a call that decoded a
\* string in LOCKED with the CRC passed and found flag_TOW_new raised, and
\* that call clears flag_TOW_new; every other call, a failed decode with
\* flag_TOW_new raised included, adds one code period and does not clear the
\* flag.
C17_ReanchorOnly ==
    [][/\ obs'.reanchored =>
            /\ d_stat = LOCKED /\ obs'.decoded /\ d_nav'.flag_CRC_test
            /\ ~d_nav'.flag_TOW_new
            /\ d_TOW_at_current_symbol' =
                  (d_nav'.SOW - BEIDOU_CNAV2_PREAMBLE_DURATION_S) \div 10
       /\ ~obs'.reanchored =>
            /\ d_TOW_at_current_symbol' =
                  d_TOW_at_current_symbol + BEIDOU_B2a_CODE_PERIOD
            /\ d_nav.flag_TOW_new => d_nav'.flag_TOW_new
            /\ ~obs'.decoded => (d_nav'.flag_TOW_new = d_nav.flag_TOW_new)
       /\ (obs'.decoded /\ d_nav'.flag_CRC_test) => ~d_nav'.flag_TOW_new
       /\ (obs'.decoded /\ d_nav'.flag_CRC_test /\ d_nav.flag_TOW_new) =>
            obs'.reanchored]_vars

\* A re-anchoring call: CRC passed, the tag set from the seconds of week and
\* flag_TOW_new cleared.
C17_Witness ==
    /\ obs.reanchored /\ obs.decoded /\ d_nav.flag_CRC_test
    /\ ~d_nav.flag_TOW_new
    /\ d_TOW_at_current_symbol = (30004 - BEIDOU_CNAV2_PREAMBLE_DURATION_S) \div 10

\* C18: a call that decodes a string has frame length + 1 symbols in the
\* window, so the data symbols it reads, up to index frame length - 1, are
\* there; the correlator's reads and the read of index 0 on a detection
\* happen only with that full window too: no call reads d_symbol_history
\* outside its range.
C18_ReadsInRange ==
    /\ obs.max_index_read < obs.window_size
    /\ obs.decoded =>
          /\ obs.window_size = BEIDOU_CNAV2_STRING_SYMBOLS + 1
          /\ obs.max_index_read = BEIDOU_CNAV2_STRING_SYMBOLS - 1
    /\ obs.max_index_read >= 0 =>
          obs.window_size = BEIDOU_CNAV2_STRING_SYMBOLS + 1
    /\ PreambleDetected(corr_value) =>
          obs.window_size = BEIDOU_CNAV2_STRING_SYMBOLS + 1

\* A decode, reading the window up to its last data symbol.
C18_Witness ==
    /\ obs.decoded /\ d_nav.flag_CRC_test
    /\ obs.max_index_read = BEIDOU_CNAV2_STRING_SYMBOLS - 1
    /\ obs.window_size = BEIDOU_CNAV2_STRING_SYMBOLS + 1
    /\ Len(d_symbol_history) = BEIDOU_CNAV2_STRING_SYMBOLS

\* C19: whatever state the block is in, once the run has been regular for
\* ReacqWithin calls (detections exactly one frame apart and at no other
\* call, every decode passing the CRC) the block is LOCKED with the frame
\* sync set, and it is so at every later call of the regular run.
C19_Reacquires ==
    [](watch.len >= ReacqWithin => (d_stat = LOCKED /\ d_flag_frame_sync))

\* The frame sync set in the very call that makes the regular run
\* ReacqWithin long: the run began in PRESYNC, off the period of the stream.
C19_Witness ==
    /\ watch.len >= ReacqWithin
    /\ d_stat = LOCKED /\ d_flag_frame_sync /\ ~obs.prev_frame_sync
    /\ obs.decoded /\ watch.last_det = d_sample_counter

\* C20: in every reachable state d_flag_frame_sync implies that the block is
\* LOCKED and that a string has passed the CRC since it last fell back to
\* NO_LOCK; so no symbol put out with the block in NO_LOCK or PRESYNC has
\* Flag_valid_word set.
C20_SyncImpliesLocked ==
    /\ d_flag_frame_sync => (d_stat = LOCKED /\ obs.pass_since_demotion)
    /\ (d_stat \in {NO_LOCK, PRESYNC}) => ~out.Flag_valid_word

\* The symbol put out by the call that loses the lock: the navigation time
\* is confirmed and the frame sync was set before the call, and the word is
\* not valid.
C20_Witness ==
    /\ d_stat = NO_LOCK /\ obs.prev_frame_sync /\ d_nav.flag_TOW_set
    /\ ~d_flag_frame_sync /\ ~obs.pass_since_demotion
    /\ ~out.Flag_valid_word

\* C21: while the window holds at most a frame of symbols when the
\* correlator is reached, which is so in the first frame-length calls and in
\* no other, corr_value is 0, no preamble is detected and d_stat stays
\* NO_LOCK; d_stat is not PRESYNC before call frame length + 1 and not
\* LOCKED before call 2 x frame length + 1; and no string is decoded, no
\* frame sync set and no valid word put out before call 3 x frame length + 1.
C21_WarmUp ==
    /\ (obs.window_size <= BEIDOU_CNAV2_STRING_SYMBOLS) <=>
          (d_sample_counter <= BEIDOU_CNAV2_STRING_SYMBOLS)
    /\ obs.window_size <= BEIDOU_CNAV2_STRING_SYMBOLS =>
          /\ corr_value = 0
          /\ ~PreambleDetected(corr_value)
          /\ d_stat = NO_LOCK
    /\ d_stat = PRESYNC => d_sample_counter >= BEIDOU_CNAV2_STRING_SYMBOLS + 1
    /\ d_stat = LOCKED => d_sample_counter >= 2 * BEIDOU_CNAV2_STRING_SYMBOLS + 1
    /\ (obs.decoded \/ obs.last_decode > 0 \/ d_flag_frame_sync
          \/ out.Flag_valid_word) =>
          d_sample_counter >= 3 * BEIDOU_CNAV2_STRING_SYMBOLS + 1

\* The earliest valid word: decode, frame sync and Flag_valid_word in call
\* 3 x frame length + 1.
C21_Witness ==
    /\ d_sample_counter = 3 * BEIDOU_CNAV2_STRING_SYMBOLS + 1
    /\ obs.decoded /\ d_flag_frame_sync /\ out.Flag_valid_word
    /\ d_stat = LOCKED

====
